---- MODULE Spec2Model ----
(***************************************************************************)
(* Model of the Lakeflow Spark Declarative Pipelines workshop:             *)
(*   - the namespace resolver of the setup notebook and of lesson 2,       *)
(*   - the data generators and the add_orders_file utility,                *)
(*   - the customers pipeline (bronze raw, bronze clean, AUTO CDC flow),   *)
(*   - the workspace provisioner (setup notebook steps 2 to 9).            *)
(* Strings that the code formats or takes apart are sequences of           *)
(* one-character strings, so that formatting and parsing are computed.     *)
(***************************************************************************)
EXTENDS Integers, Sequences, FiniteSets, TLC

VARIABLES
    current_user,   \* resolver: the identity reported by current_user()
    setupNs,        \* resolver: what the setup notebook computed, or NoNs
    lessonNs,       \* resolver: what the lesson-2 cell computed, or NoNs
    files,          \* landing volume: path under working_dir -> file content
    lastCall,       \* generators: the last call made, with what it returned
    ingested,       \* pipeline: the customers files read_files has read
    customers_raw,  \* pipeline: bronze.customers_raw, rows in arrival order
    customers_clean,\* pipeline: bronze.customers_clean, rows in arrival order
    cleanOffset,    \* pipeline: rows of customers_raw the clean table has read
    cdcOffset,      \* pipeline: rows of customers_clean the CDC flow has read
    silver,         \* pipeline: silver.customers as AUTO CDC keeps it, by key
    expectations,   \* pipeline: the metrics of bronze.customers_clean
    catalogs,       \* platform: the catalogs that exist
    schemas,        \* platform: <<catalog, schema>> of the schemas that exist
    volumes,        \* platform: <<catalog, schema, volume>> of the volumes
    tables,         \* platform: <<catalog, schema, table>> of the tables
    dirs,           \* platform: the directories of the volumes, as paths
    pc,             \* provisioner: the statement each run executes next
    DA,             \* provisioner: the WorkshopHelper of each run, or NoNs
    session,        \* provisioner: identity and random seed of each run
    teardown,       \* provisioner: what Step 2 of each run printed
    failedAt,       \* provisioner: the statement whose exception ended a run
    alone,          \* history: no other run was in flight during the run
    clobbered,      \* history: another run dropped the catalog under the run
    complete,       \* history: the environment was complete at Step 9
    snapshot        \* history: the objects of the run's catalog at Step 9

resolverVars == <<current_user, setupNs, lessonNs>>
genVars == <<files, lastCall>>
pipeVars == <<ingested, customers_raw, customers_clean, cleanOffset, cdcOffset,
              silver, expectations>>

platformVars == <<catalogs, schemas, volumes, tables, dirs>>
runVars == <<pc, DA, session, teardown, failedAt, alone, clobbered, complete,
            snapshot>>
provVars == <<platformVars, runVars>>

vars == <<current_user, setupNs, lessonNs, files, lastCall, ingested,
          customers_raw, customers_clean, cleanOffset, cdcOffset, silver,
          expectations, catalogs, schemas, volumes, tables, dirs, pc, DA, session, teardown,
          failedAt, alone, clobbered, complete, snapshot>>

(***************************************************************************)
(* Characters and strings                                                  *)
(***************************************************************************)

\* Longest identity string the resolver is tried on.
MaxIdLen == 3

\* The characters identities are built from: a lower-case letter, an
\* upper-case letter, a digit, the separator, two punctuation characters and
\* U+0130, whose lower-case form is two code points long.
IdChars == {"a", "Z", "7", "@", ".", "_", "U+0130"}

\* The members of the class [a-z0-9] that lower-casing IdChars can produce.
AZ09 == {"a", "i", "z", "7"}

RECURSIVE SeqsUpTo(_, _)
SeqsUpTo(S, n) ==
    IF n = 0 THEN {<<>>}
    ELSE LET shorter == SeqsUpTo(S, n - 1)
         IN  shorter \cup {Append(s, c) : s \in shorter, c \in S}

Identities == SeqsUpTo(IdChars, MaxIdLen) \ {<<>>}

\* str.split(sep): the parts of s between occurrences of sep.
RECURSIVE Split(_, _)
Split(s, sep) ==
    IF s = <<>> THEN <<(<<>>)>>
    ELSE LET rest == Split(Tail(s), sep)
         IN  IF Head(s) = sep
             THEN <<(<<>>)>> \o rest
             ELSE <<(<<Head(s)>> \o rest[1])>> \o Tail(rest)

\* str.lower() of one character.
LowerChar(c) ==
    CASE c = "Z"      -> <<"z">>
      [] c = "U+0130" -> <<"i", "U+0307">>
      [] OTHER        -> <<c>>

\* str.lower().
RECURSIVE Lower(_)
Lower(s) ==
    IF s = <<>> THEN <<>> ELSE LowerChar(Head(s)) \o Lower(Tail(s))

\* re.sub(r'[^a-z0-9]', '_', s).
RECURSIVE SubNonAZ09(_)
SubNonAZ09(s) ==
    IF s = <<>> THEN <<>>
    ELSE <<(IF Head(s) \in AZ09 THEN Head(s) ELSE "_")>> \o SubNonAZ09(Tail(s))

CatalogPrefix == <<"s", "d", "p", "_", "w", "o", "r", "k", "s", "h", "o", "p", "_">>

(***************************************************************************)
(* Number formatting (Python's {n:0wd}) and its inverse                    *)
(***************************************************************************)

DigitSeq == <<"0", "1", "2", "3", "4", "5", "6", "7", "8", "9">>

DigitChar(d) == DigitSeq[d + 1]

\* str(n) for n >= 0.
RECURSIVE Decimal(_)
Decimal(n) ==
    IF n < 10 THEN <<DigitChar(n)>>
    ELSE Decimal(n \div 10) \o <<DigitChar(n % 10)>>

\* f"{n:0wd}" for n >= 0: at least w digits, zeros in front.
ZeroPad(n, w) ==
    LET d == Decimal(n)
    IN  IF Len(d) >= w THEN d ELSE [i \in 1..(w - Len(d)) |-> "0"] \o d

IsDigits(s) == \A i \in 1..Len(s) : \E d \in 0..9 : s[i] = DigitSeq[d + 1]

DigitValue(c) == CHOOSE d \in 0..9 : DigitSeq[d + 1] = c

\* int(s) of a string of decimal digits.
RECURSIVE DecimalValue(_)
DecimalValue(s) ==
    IF s = <<>> THEN 0
    ELSE 10 * DecimalValue(SubSeq(s, 1, Len(s) - 1)) + DigitValue(s[Len(s)])

\* The digits NN of a file name NN.json.
NameDigits(name) == SubSeq(name, 1, Len(name) - 1)

(***************************************************************************)
(* Landing volume and generators                                           *)
(***************************************************************************)

\* dbutils.fs.put(path, contents, overwrite=True)
FsPut(fs, path, contents) ==
    [p \in (DOMAIN fs) \cup {path} |-> IF p = path THEN contents ELSE fs[p]]

EmptyFs == [p \in {} |-> <<>>]

NoCall == [fn |-> "none"]

GenIdle ==
    /\ files = EmptyFs
    /\ lastCall = NoCall

\* The pipeline before its first update: empty tables, nothing read.
EmptyTarget == [k \in {} |-> <<>>]

\* No record evaluated, no update of bronze.customers_clean run.
NoMetrics ==
    [valid_id        |-> [met |-> 0, violated |-> 0],
     valid_operation |-> [met |-> 0, violated |-> 0],
     valid_email     |-> [met |-> 0, violated |-> 0],
     dropped         |-> 0,
     last_update     |-> "none"]

PipeInit ==
    /\ expectations = NoMetrics
    /\ ingested = {}
    /\ customers_raw = <<>>
    /\ customers_clean = <<>>
    /\ cleanOffset = 0
    /\ cdcOffset = 0
    /\ silver = EmptyTarget

\* Seeds of the random source the generators draw from.
MaxSeed == 2

Seeds == 0..MaxSeed

\* The k-th draw (k >= 0) of the random source seeded with seed, in 0..n-1.
RandomDraw(seed, k, n) == (seed + k * (seed + 1)) % n

\* random.choice(options) at draw k.
RandomChoice(options, seed, k) == options[RandomDraw(seed, k, Len(options)) + 1]

\* datetime(2024, 1, 1).timestamp() on a cluster whose time zone is UTC.
BaseTimestamp == 1704067200

JsonSuffix == <<".json">>

SeedFileName == <<"0", "0">> \o JsonSuffix

\* An order as both generators write it; order_timestamp, customer_id and
\* notifications are independent random draws and are left out.
OrderRecord(id) == [order_id |-> <<"O", "R", "D">> \o ZeroPad(id, 5)]

\* generate_orders: the records of the loop.
GenerateOrdersRecords(num_orders) ==
    [k \in 1..num_orders |-> OrderRecord((k - 1) + 1000)]

\* generate_orders(num_orders, file_name) on the volume at working_dir.
GenerateOrders(fs, working_dir, num_orders, file_name) ==
    LET orders == GenerateOrdersRecords(num_orders)
    IN  [fs  |-> FsPut(fs, working_dir \o <<"orders", file_name>>, orders),
         ret |-> Len(orders)]

\* add_orders_file: the records of the loop.
AddOrdersRecords(file_number, num_orders) ==
    [k \in 1..num_orders |-> OrderRecord((k - 1) + 1000 + file_number * 1000)]

\* add_orders_file that names the file by the unpadded number.
AddOrdersFileNameUnpadded(file_number) == Decimal(file_number) \o JsonSuffix

AddOrdersFileName(file_number) == ZeroPad(file_number, 2) \o JsonSuffix

\* add_orders_file(spark, working_dir, file_number, num_orders)
AddOrdersFile(fs, working_dir, file_number, num_orders) ==
    LET orders    == AddOrdersRecords(file_number, num_orders)
        file_name == AddOrdersFileName(file_number)
        file_path == working_dir \o <<"orders", file_name>>
    IN  [fs  |-> FsPut(fs, file_path, orders),
         ret |-> <<"Created ">> \o Decimal(num_orders)
                     \o <<" orders in orders/">> \o file_name]

Statuses == <<"placed", "preparing", "on the way", "delivered", "canceled">>

\* A randint whose upper end is one past b.
RandIntPastEnd(a, b, seed, k) == a + RandomDraw(seed, k, b - a + 2)

\* random.randint(a, b) at draw k.
RandInt(a, b, seed, k) == a + RandomDraw(seed, k, b - a + 1)

\* generate_status_updates: the records of the loop; record i takes draws
\* 2i and 2i+1 of the random source.
GenerateStatusRecords(num_updates, seed) ==
    [k \in 1..num_updates |->
        [order_id         |-> <<"O", "R", "D">>
                                  \o ZeroPad(RandInt(1000, 1173, seed, 2 * (k - 1)), 5),
         order_status     |-> RandomChoice(Statuses, seed, 2 * (k - 1) + 1),
         status_timestamp |-> BaseTimestamp + ((k - 1) * 3600)]]

\* generate_status_updates(num_updates, file_name) on the volume at working_dir.
GenerateStatusUpdates(fs, working_dir, num_updates, file_name, seed) ==
    LET status_updates == GenerateStatusRecords(num_updates, seed)
    IN  [fs  |-> FsPut(fs, working_dir \o <<"status", file_name>>, status_updates),
         ret |-> Len(status_updates)]

Cities == <<"New York", "Los Angeles", "Chicago", "Houston">>

States == <<"NY", "CA", "IL", "TX">>

CustomerId(i) == <<"C", "U", "S", "T">> \o ZeroPad(i, 4)

UpdatedIds == <<1, 5, 10, 15, 20>>

DeletedIds == <<3, 7>>

\* The INSERT event of customer i; its city and state are draws 2(i-1) and
\* 2(i-1)+1 of the random source.
CustomerInsert(i, seed) ==
    [customer_id |-> CustomerId(i),
     name        |-> <<"Customer ">> \o Decimal(i),
     email       |-> <<"customer">> \o Decimal(i) \o <<"@example.com">>,
     address     |-> Decimal(i * 100) \o <<" Main St">>,
     city        |-> RandomChoice(Cities, seed, 2 * (i - 1)),
     state       |-> RandomChoice(States, seed, 2 * (i - 1) + 1),
     zip_code    |-> ZeroPad(10000 + i, 5),
     operation   |-> "INSERT",
     timestamp   |-> BaseTimestamp + (i * 1000)]

\* The UPDATE event with an offset of 3 * 1000 instead of 30 * 1000.
CustomerUpdateEarly(i) ==
    [customer_id |-> CustomerId(i),
     name        |-> <<"Customer ">> \o Decimal(i),
     email       |-> <<"newemail">> \o Decimal(i) \o <<"@example.com">>,
     address     |-> Decimal(i * 200) \o <<" Oak Ave">>,
     city        |-> "San Francisco",
     state       |-> "CA",
     zip_code    |-> ZeroPad(94000 + i, 5),
     operation   |-> "UPDATE",
     timestamp   |-> BaseTimestamp + (3 * 1000) + (i * 100)]

CustomerUpdate(i) ==
    [customer_id |-> CustomerId(i),
     name        |-> <<"Customer ">> \o Decimal(i),
     email       |-> <<"newemail">> \o Decimal(i) \o <<"@example.com">>,
     address     |-> Decimal(i * 200) \o <<" Oak Ave">>,
     city        |-> "San Francisco",
     state       |-> "CA",
     zip_code    |-> ZeroPad(94000 + i, 5),
     operation   |-> "UPDATE",
     timestamp   |-> BaseTimestamp + (30 * 1000) + (i * 100)]

CustomerDelete(i) ==
    [customer_id |-> CustomerId(i),
     operation   |-> "DELETE",
     timestamp   |-> BaseTimestamp + (60 * 1000) + (i * 100)]

\* generate_customer_cdc: the list built by the three loops.
GenerateCustomerCdcRecords(seed) ==
    [i \in 1..20 |-> CustomerInsert(i, seed)]
        \o [j \in 1..Len(UpdatedIds) |-> CustomerUpdate(UpdatedIds[j])]
        \o [j \in 1..Len(DeletedIds) |-> CustomerDelete(DeletedIds[j])]

\* generate_customer_cdc(file_name) on the volume at working_dir.
GenerateCustomerCdc(fs, working_dir, file_name, seed) ==
    LET customers == GenerateCustomerCdcRecords(seed)
    IN  [fs  |-> FsPut(fs, working_dir \o <<"customers", file_name>>, customers),
         ret |-> Len(customers)]

(***************************************************************************)
(* Namespace resolution: setup notebook, and the lesson-2 cell             *)
(***************************************************************************)

NoNs == [resolved |-> FALSE]

SetupUsername(user) == Split(user, "@")[1]

SetupCleanUsername(user) == SubNonAZ09(Lower(SetupUsername(user)))

\* WorkshopHelper.__init__
WorkshopHelper(user) ==
    LET catalog == CatalogPrefix \o SetupCleanUsername(user)
    IN  [resolved       |-> TRUE,
         username       |-> SetupUsername(user),
         clean_username |-> SetupCleanUsername(user),
         catalog_name   |-> catalog,
         default_schema |-> "default",
         working_dir    |-> <<"Volumes", catalog, "default", "raw">>]

LessonUsername(user) == Split(user, "@")[1]

\* The lesson cell without the lower(): upper-case letters become '_'.
LessonCleanUsernameNoLower(user) == SubNonAZ09(LessonUsername(user))

LessonCleanUsername(user) == SubNonAZ09(Lower(LessonUsername(user)))

\* The "Set catalog and schema" cell of lesson 2.
LessonCatalog(user) ==
    [resolved       |-> TRUE,
     username       |-> LessonUsername(user),
     clean_username |-> LessonCleanUsername(user),
     catalog_name   |-> CatalogPrefix \o LessonCleanUsername(user)]

(***************************************************************************)
(* The platform: catalogs, schemas, volumes, tables, directories, files    *)
(***************************************************************************)

\* The objects <<catalog, ...>> that belong to a catalog.
InCatalog(catalog, objects) == {o \in objects : o[1] = catalog}

\* The paths /Volumes/<catalog>/... that belong to a catalog.
UnderCatalog(catalog, paths) == {p \in paths : p[2] = catalog}

\* The volume <<catalog, schema, volume>> a path /Volumes/... lies in.
VolumeOf(path) == <<path[2], path[3], path[4]>>

Restrict(f, S) == [x \in S |-> f[x]]

\* DROP CATALOG IF EXISTS <catalog> CASCADE, when it does not raise.
DropCatalogCascade(catalog, objects) == objects \ InCatalog(catalog, objects)

\* CREATE CATALOG <catalog>, which raises if the catalog exists.
CreateCatalogStrict(catalog) ==
    [raised |-> catalog \in catalogs, catalogs |-> catalogs \cup {catalog}]

\* CREATE CATALOG IF NOT EXISTS <catalog>
CreateCatalogIfNotExists(catalog) ==
    [raised |-> FALSE, catalogs |-> catalogs \cup {catalog}]

\* CREATE SCHEMA IF NOT EXISTS <catalog>.<schema>: needs the catalog.
CreateSchemaIfNotExists(catalog, schema) ==
    IF catalog \in catalogs
    THEN [raised |-> FALSE, schemas |-> schemas \cup {<<catalog, schema>>}]
    ELSE [raised |-> TRUE, schemas |-> schemas]

\* CREATE VOLUME IF NOT EXISTS <catalog>.<schema>.<volume>: needs the schema.
CreateVolumeIfNotExists(catalog, schema, volume) ==
    IF <<catalog, schema>> \in schemas
    THEN [raised |-> FALSE,
          volumes |-> volumes \cup {<<catalog, schema, volume>>}]
    ELSE [raised |-> TRUE, volumes |-> volumes]

\* A mkdirs that raises if the directory exists.
FsMkdirsStrict(path) ==
    IF VolumeOf(path) \in volumes /\ path \notin dirs
    THEN [raised |-> FALSE, dirs |-> dirs \cup {path}]
    ELSE [raised |-> TRUE, dirs |-> dirs]

\* dbutils.fs.mkdirs(path): needs the volume; no error if the directory exists.
FsMkdirs(path) ==
    IF VolumeOf(path) \in volumes
    THEN [raised |-> FALSE, dirs |-> dirs \cup {path}]
    ELSE [raised |-> TRUE, dirs |-> dirs]

\* The directory of a file path.
Parent(path) == SubSeq(path, 1, Len(path) - 1)

\* The subdirectories, the schemas of the medallion architecture, the volume.
SubDirs == {"orders", "status", "customers"}

MedallionSchemas == {"bronze", "silver", "gold"}

VolumeName == "raw"

\* What Steps 3 to 5 create for a helper.
HelperSchemas(da) ==
    {<<da.catalog_name, s>> : s \in {da.default_schema} \cup MedallionSchemas}

HelperVolume(da) == <<da.catalog_name, da.default_schema, VolumeName>>

HelperDirs(da) == {da.working_dir \o <<d>> : d \in SubDirs}

\* The objects of a catalog: the catalog, its schemas, volumes, directories.
EnvOf(catalog) ==
    [catalogs |-> catalogs \cap {catalog},
     schemas  |-> InCatalog(catalog, schemas),
     volumes  |-> InCatalog(catalog, volumes),
     dirs     |-> UnderCatalog(catalog, dirs)]

NoEnv == [catalogs |-> {}, schemas |-> {}, volumes |-> {}, dirs |-> {}]

\* The notebook runs; two of them are enough for a re-run and for a race.
Runs == {"run1", "run2"}

NoSession == [started |-> FALSE]

\* No run of the setup notebook has started.
RunsIdle ==
    /\ pc = [r \in Runs |-> "resolve"]
    /\ DA = [r \in Runs |-> NoNs]
    /\ session = [r \in Runs |-> NoSession]
    /\ teardown = [r \in Runs |-> "none"]
    /\ failedAt = [r \in Runs |-> "none"]
    /\ alone = [r \in Runs |-> TRUE]
    /\ clobbered = [r \in Runs |-> FALSE]
    /\ complete = [r \in Runs |-> FALSE]
    /\ snapshot = [r \in Runs |-> NoEnv]

\* The environment of the one user whose landing volume the generator calls
\* and the pipeline work on, after Steps 3 to 5.
ProvIdle ==
    LET da == WorkshopHelper(<<"a">>)
    IN  /\ catalogs = {da.catalog_name}
        /\ schemas = HelperSchemas(da)
        /\ volumes = {HelperVolume(da)}
        /\ tables = {}
        /\ dirs = HelperDirs(da)
        /\ RunsIdle

ResolverInit ==
    /\ current_user \in Identities
    /\ setupNs = NoNs
    /\ lessonNs = NoNs

ResolverIdle ==
    /\ current_user = <<"a">>
    /\ setupNs = NoNs
    /\ lessonNs = NoNs

\* Step 1 of the setup notebook.
SetupResolve ==
    /\ setupNs' = WorkshopHelper(current_user)
    /\ UNCHANGED <<provVars, current_user, lessonNs, genVars, pipeVars>>

\* The catalog-selection cell of lesson 2.
LessonResolve ==
    /\ lessonNs' = LessonCatalog(current_user)
    /\ UNCHANGED <<provVars, current_user, setupNs, genVars, pipeVars>>

ResolverNext == SetupResolve \/ LessonResolve

InitResolver == ResolverInit /\ GenIdle /\ PipeInit /\ ProvIdle

SpecResolver == InitResolver /\ [][ResolverNext]_vars

(***************************************************************************)
(* Calls of the generators and of add_orders_file on one landing volume    *)
(***************************************************************************)

\* File numbers up to MaxFileNumber, and the first ones too wide for {:05d}
\* (the id) and for {:02d} (the file name).
MaxFileNumber == 1

FileNumberChoices == (0..MaxFileNumber) \cup {99, 100}

\* Record counts up to MaxSmallOrders, and those around the 1000 ids between
\* consecutive file numbers.
MaxSmallOrders == 2

NumOrdersChoices == (0..MaxSmallOrders) \cup {1000, 1001}

\* Files kept in orders/ at a time.
MaxOrderFiles == 2

\* The landing volume the calls work on.
GenWorkingDir == WorkshopHelper(<<"a">>).working_dir

OrdersPaths(fs) == {p \in DOMAIN fs : p[Len(p) - 1] = "orders"}

\* The results of the calls made below, evaluated once.
GenerateOrdersResult == GenerateOrders(EmptyFs, GenWorkingDir, 174, SeedFileName)

AddOrdersFileResult ==
    [file_number \in FileNumberChoices, num_orders \in NumOrdersChoices |->
        AddOrdersFile(EmptyFs, GenWorkingDir, file_number, num_orders)]

\* fs with the files of written put over it.
FsPutAll(fs, written) ==
    [p \in (DOMAIN fs) \cup (DOMAIN written) |->
        IF p \in DOMAIN written THEN written[p] ELSE fs[p]]

GenInit ==
    /\ files = EmptyFs
    /\ lastCall = NoCall

\* Step 6 of the setup notebook: generate_orders(num_orders=174, "00.json").
GenerateOrdersCall ==
    LET r == GenerateOrdersResult
    IN  /\ \/ DOMAIN r.fs \subseteq DOMAIN files
           \/ Cardinality(OrdersPaths(files)) < MaxOrderFiles
        /\ files' = FsPutAll(files, r.fs)
        /\ lastCall' = [fn |-> "generate_orders", file_number |-> 0,
                        num_orders |-> 174, ret |-> r.ret,
                        existed |-> DOMAIN r.fs \subseteq DOMAIN files]
        /\ UNCHANGED <<provVars, resolverVars, pipeVars>>

\* A call add_orders_file(spark, working_dir, file_number, num_orders).
AddOrdersFileCall(file_number, num_orders) ==
    LET r == AddOrdersFileResult[file_number, num_orders]
    IN  /\ \/ DOMAIN r.fs \subseteq DOMAIN files
           \/ Cardinality(OrdersPaths(files)) < MaxOrderFiles
        /\ files' = FsPutAll(files, r.fs)
        /\ lastCall' = [fn |-> "add_orders_file", file_number |-> file_number,
                        num_orders |-> num_orders, ret |-> r.ret,
                        existed |-> DOMAIN r.fs \subseteq DOMAIN files]
        /\ UNCHANGED <<provVars, resolverVars, pipeVars>>

GenNext ==
    \/ GenerateOrdersCall
    \/ \E file_number \in FileNumberChoices, num_orders \in NumOrdersChoices :
           AddOrdersFileCall(file_number, num_orders)

InitGen == ResolverIdle /\ GenInit /\ PipeInit /\ ProvIdle

SpecGen == InitGen /\ [][GenNext]_vars

(***************************************************************************)
(* The customers pipeline: customers_pipeline.sql as lesson 2 gives it     *)
(***************************************************************************)

\* The columns read_files infers from the customer CDC files.
CustomerColumns ==
    {"customer_id", "name", "email", "address", "city", "state", "zip_code",
     "operation", "timestamp"}

\* One JSON object read under that schema. A row is a record of its
\* non-NULL columns: a field that is missing or null is a NULL column.
ReadJson(record) == [c \in (DOMAIN record) \cap CustomerColumns |-> record[c]]

IsNull(row, column) == column \notin DOMAIN row

\* from_unixtime(t) cast to a timestamp: the calendar reading of t seconds,
\* as days since the epoch and the time of day.
FromUnixtime(t) ==
    [days |-> t \div 86400,
     hh   |-> (t % 86400) \div 3600,
     mm   |-> (t % 3600) \div 60,
     ss   |-> t % 60]

\* a < b on timestamps.
TsLess(a, b) ==
    \/ a.days < b.days
    \/ a.days = b.days /\ a.hh < b.hh
    \/ a.days = b.days /\ a.hh = b.hh /\ a.mm < b.mm
    \/ a.days = b.days /\ a.hh = b.hh /\ a.mm = b.mm /\ a.ss < b.ss

Extend(r, field, value) ==
    [c \in (DOMAIN r) \cup {field} |-> IF c = field THEN value ELSE r[c]]

Without(r, fields) == [c \in (DOMAIN r) \ fields |-> r[c]]

RECURSIVE Flatten(_)
Flatten(ss) == IF ss = <<>> THEN <<>> ELSE Head(ss) \o Flatten(Tail(ss))

\* The members of a set of paths in the order of their file names.
RECURSIVE SortedPaths(_)
SortedPaths(ps) ==
    IF ps = {} THEN <<>>
    ELSE LET first == CHOOSE p \in ps : \A q \in ps :
                          DecimalValue(NameDigits(p[Len(p)]))
                              <= DecimalValue(NameDigits(q[Len(q)]))
         IN  <<first>> \o SortedPaths(ps \ {first})

CustomersPaths(fs) == {p \in DOMAIN fs : p[Len(p) - 1] = "customers"}

\* bronze.customers_raw: SELECT *, current_timestamp() AS processing_time
\* FROM STREAM read_files("${source}/customers"). The rows of the files not
\* read before; processing_time is the logical time of the batch.
RawBatch(fs, seen) ==
    LET new  == SortedPaths(CustomersPaths(fs) \ seen)
        rows == Flatten([k \in 1..Len(new) |-> fs[new[k]]])
    IN  [k \in 1..Len(rows) |->
            Extend(ReadJson(rows[k]), "processing_time", Cardinality(seen))]

\* The SELECT of bronze.customers_clean.
CleanSelect(row) ==
    IF IsNull(row, "timestamp") THEN row
    ELSE Extend(row, "timestamp_datetime", FromUnixtime(row.timestamp))

\* CONSTRAINT valid_id EXPECT (customer_id IS NOT NULL) ON VIOLATION FAIL UPDATE
ValidId(row) == ~IsNull(row, "customer_id")

\* CONSTRAINT valid_operation EXPECT (operation IS NOT NULL) ON VIOLATION DROP ROW
ValidOperation(row) == ~IsNull(row, "operation")

\* The number of characters of a token of a string: the literals the
\* generators put into an email or that name an operation, else one character.
TokenLen(t) ==
    CASE t \in {"customer", "newemail"} -> 8
      [] t = "@example.com" -> 12
      [] t \in {"INSERT", "UPDATE", "DELETE"} -> 6
      [] OTHER -> 1

RECURSIVE CharLen(_)
CharLen(str) == IF str = <<>> THEN 0 ELSE TokenLen(Head(str)) + CharLen(Tail(str))

\* SQL OR over TRUE, FALSE and NULL.
Or3(a, b) ==
    IF a = "true" \/ b = "true" THEN "true"
    ELSE IF a = "null" \/ b = "null" THEN "null"
    ELSE "false"

\* rlike(email, '...'): NULL for a NULL email; the pattern, three times
\* "any character", is found in every string of three characters or more.
RlikeEmail(row) ==
    IF IsNull(row, "email") THEN "null"
    ELSE IF CharLen(row.email) >= 3 THEN "true" ELSE "false"

\* operation = 'DELETE'
OperationIsDelete(row) ==
    IF IsNull(row, "operation") THEN "null"
    ELSE IF row.operation = "DELETE" THEN "true" ELSE "false"

\* CONSTRAINT valid_email EXPECT (rlike(email, '...') OR operation = 'DELETE'):
\* a record meets an expectation when the expression is TRUE.
ValidEmail(row) == Or3(RlikeEmail(row), OperationIsDelete(row)) = "true"

Count(batch, Met(_)) == Cardinality({k \in 1..Len(batch) : Met(batch[k])})

Tally(counter, batch, Met(_)) ==
    [met      |-> counter.met + Count(batch, Met),
     violated |-> counter.violated + (Len(batch) - Count(batch, Met))]

\* The metrics after an update of bronze.customers_clean on a batch: a failed
\* update records nothing but its failure.
CleanMetrics(m, batch, failed) ==
    IF failed THEN [m EXCEPT !.last_update = "failed"]
    ELSE [valid_id        |-> Tally(m.valid_id, batch, ValidId),
          valid_operation |-> Tally(m.valid_operation, batch, ValidOperation),
          valid_email     |-> Tally(m.valid_email, batch, ValidEmail),
          dropped         |-> m.dropped + (Len(batch) - Count(batch, ValidOperation)),
          last_update     |-> "completed"]

\* bronze.customers_clean with valid_id ON VIOLATION DROP ROW.
CleanBatchDropNullId(batch) ==
    [failed |-> FALSE,
     rows   |-> SelectSeq(SelectSeq([k \in 1..Len(batch) |-> CleanSelect(batch[k])],
                                    ValidOperation),
                          ValidId)]

\* bronze.customers_clean on one batch of raw rows: the update fails when a
\* row violates valid_id, rows violating valid_operation are dropped.
CleanBatch(batch) ==
    IF \E k \in 1..Len(batch) : ~ValidId(batch[k])
    THEN [failed |-> TRUE, rows |-> <<>>]
    ELSE [failed |-> FALSE,
          rows   |-> SelectSeq([k \in 1..Len(batch) |-> CleanSelect(batch[k])],
                               ValidOperation)]

\* A flow without the APPLY AS DELETE WHEN clause.
IsDeleteNever(row) == FALSE

\* APPLY AS DELETE WHEN operation = 'DELETE'
IsDelete(row) == ~IsNull(row, "operation") /\ row.operation = "DELETE"

\* COLUMNS * EXCEPT (timestamp, operation, ...)
TargetColumns(row) == Without(row, {"timestamp", "operation", "processing_time"})

\* What the flow keeps for a key: the change last applied, its sequence
\* value, and whether it was a delete (the row is then not in the table).
Change(row) ==
    [seq     |-> row.timestamp_datetime,
     deleted |-> IsDelete(row),
     row     |-> TargetColumns(row)]

BatchKeys(batch) == {batch[k].customer_id : k \in 1..Len(batch)}

\* The row of the batch for key with the greatest SEQUENCE BY value (the
\* rows of a key are taken to differ in it).
LatestInBatch(batch, key) ==
    LET mine == {k \in 1..Len(batch) : batch[k].customer_id = key}
    IN  batch[CHOOSE k \in mine : \A j \in mine :
                  ~TsLess(batch[k].timestamp_datetime,
                          batch[j].timestamp_datetime)]

\* Whether a change sequenced at seq replaces what the target keeps for key.
Supersedes(target, key, seq) ==
    key \notin DOMAIN target \/ TsLess(target[key].seq, seq)

\* The flow that applies a change whatever its sequence value.
AutoCdcArrivalOrder(target, batch) ==
    [key \in (DOMAIN target) \cup BatchKeys(batch) |->
        IF key \in BatchKeys(batch)
        THEN Change(batch[CHOOSE k \in 1..Len(batch) :
                              /\ batch[k].customer_id = key
                              /\ \A j \in (k + 1)..Len(batch) :
                                     batch[j].customer_id # key])
        ELSE target[key]]

\* The flow that forgets a deleted key's sequence value.
AutoCdcNoTombstone(target, batch) ==
    LET merged ==
            [key \in (DOMAIN target) \cup BatchKeys(batch) |->
                IF key \in BatchKeys(batch)
                   /\ Supersedes(target, key,
                          LatestInBatch(batch, key).timestamp_datetime)
                THEN Change(LatestInBatch(batch, key))
                ELSE target[key]]
    IN  [key \in {k \in DOMAIN merged : ~merged[k].deleted} |-> merged[key]]

\* CREATE FLOW customers_cdc AS AUTO CDC INTO silver.customers
\*   KEYS (customer_id) APPLY AS DELETE WHEN operation = 'DELETE'
\*   SEQUENCE BY timestamp_datetime STORED AS SCD TYPE 1
\* on one batch: per key the latest change of the batch, applied unless the
\* target already holds a change of that key sequenced later.
AutoCdc(target, batch) ==
    [key \in (DOMAIN target) \cup BatchKeys(batch) |->
        IF key \in BatchKeys(batch)
           /\ Supersedes(target, key,
                  LatestInBatch(batch, key).timestamp_datetime)
        THEN Change(LatestInBatch(batch, key))
        ELSE target[key]]

\* SELECT * FROM silver.customers
SilverCustomers == {silver[k].row : k \in {j \in DOMAIN silver : ~silver[j].deleted}}

\* A micro-batch of bronze.customers_raw: the files not read before.
IngestRaw ==
    /\ CustomersPaths(files) \ ingested # {}
    /\ customers_raw' = customers_raw \o RawBatch(files, ingested)
    /\ ingested' = CustomersPaths(files)
    /\ UNCHANGED <<provVars, resolverVars, genVars, customers_clean, cleanOffset,
                   cdcOffset, silver, expectations>>

\* A micro-batch of bronze.customers_clean: the next n rows of customers_raw.
\* A failed update reads nothing.
CleanUpdate(n) ==
    LET batch == SubSeq(customers_raw, cleanOffset + 1, cleanOffset + n)
        r     == CleanBatch(batch)
    IN  /\ cleanOffset + n <= Len(customers_raw)
        /\ customers_clean' = customers_clean \o r.rows
        /\ cleanOffset' = IF r.failed THEN cleanOffset ELSE cleanOffset + n
        /\ expectations' = CleanMetrics(expectations, batch, r.failed)
        /\ UNCHANGED <<provVars, resolverVars, genVars, ingested, customers_raw,
                       cdcOffset, silver>>

\* A micro-batch of the flow customers_cdc: the next n rows of customers_clean.
CdcUpdate(n) ==
    /\ cdcOffset + n <= Len(customers_clean)
    /\ silver' = AutoCdc(silver,
                     SubSeq(customers_clean, cdcOffset + 1, cdcOffset + n))
    /\ cdcOffset' = cdcOffset + n
    /\ UNCHANGED <<provVars, resolverVars, genVars, ingested, customers_raw,
                   customers_clean, cleanOffset, expectations>>

PipelineNext ==
    \/ IngestRaw
    \/ \E n \in 1..(Len(customers_raw) - cleanOffset) : CleanUpdate(n)
    \/ \E n \in 1..(Len(customers_clean) - cdcOffset) : CdcUpdate(n)

(***************************************************************************)
(* The pipeline on the seed file of the setup notebook                     *)
(***************************************************************************)

\* Step 8 of the setup notebook: generate_customer_cdc(file_name="00.json").
GenerateCustomerCdcCall(seed) ==
    LET r == GenerateCustomerCdc(files, GenWorkingDir, SeedFileName, seed)
    IN  /\ files = EmptyFs
        /\ files' = r.fs
        /\ lastCall' = [fn |-> "generate_customer_cdc", ret |-> r.ret]
        /\ UNCHANGED <<provVars, resolverVars, pipeVars>>

SeedPipelineNext ==
    \/ \E seed \in Seeds : GenerateCustomerCdcCall(seed)
    \/ PipelineNext

InitSeedPipeline == ResolverIdle /\ GenInit /\ PipeInit /\ ProvIdle

SpecSeedPipeline == InitSeedPipeline /\ [][SeedPipelineNext]_vars

(***************************************************************************)
(* The pipeline on CDC events of a source system, in any arrival order     *)
(***************************************************************************)

\* CDC files a source system lands in customers/.
MaxEvents == 3

CdcOperations == {"INSERT", "UPDATE", "DELETE"}

\* The keys and times of the events: customer 1 at 00:00:59, 00:01:00 and
\* 01:00:00 of 2024-01-01, customer 2 at 00:01:00.
CdcSlots ==
    {<<CustomerId(1), BaseTimestamp + 59>>,
     <<CustomerId(1), BaseTimestamp + 60>>,
     <<CustomerId(1), BaseTimestamp + 3600>>,
     <<CustomerId(2), BaseTimestamp + 60>>}

\* An event in the shape generate_customer_cdc gives its events; the email
\* tells the events of a key apart.
UpstreamEvent(key, op, ts) ==
    IF op = "DELETE"
    THEN [customer_id |-> key, operation |-> op, timestamp |-> ts]
    ELSE [customer_id |-> key,
          email       |-> <<op>> \o Decimal(ts) \o <<"@example.com">>,
          operation   |-> op,
          timestamp   |-> ts]

LandedEvents(fs) ==
    UNION {{fs[p][k] : k \in 1..Len(fs[p])} : p \in CustomersPaths(fs)}

\* The source system lands the next file NN.json, holding one event. The
\* events of a key differ in their timestamps.
UpstreamFile(key, op, ts) ==
    LET n == Cardinality(CustomersPaths(files))
    IN  /\ n < MaxEvents
        /\ \A e \in LandedEvents(files) :
               ~(e.customer_id = key /\ e.timestamp = ts)
        /\ files' = FsPut(files,
                          GenWorkingDir \o <<"customers", ZeroPad(n, 2) \o JsonSuffix>>,
                          <<UpstreamEvent(key, op, ts)>>)
        /\ UNCHANGED <<provVars, lastCall, resolverVars, pipeVars>>

CdcNext ==
    \/ \E slot \in CdcSlots, op \in CdcOperations :
           UpstreamFile(slot[1], op, slot[2])
    \/ PipelineNext

InitCdc == ResolverIdle /\ GenInit /\ PipeInit /\ ProvIdle

SpecCdc == InitCdc /\ [][CdcNext]_vars

(***************************************************************************)
(* bronze.customers_clean on events that violate its constraints           *)
(***************************************************************************)

\* Files of events a source system lands in customers/.
MaxDirtyEvents == 3

\* An event with or without customer_id, operation and email.
DirtyEvent(has_id, operation, email) ==
    LET base == [timestamp |-> BaseTimestamp + 60]
        e1   == IF has_id THEN Extend(base, "customer_id", CustomerId(1)) ELSE base
        e2   == IF operation # "" THEN Extend(e1, "operation", operation) ELSE e1
    IN  IF email # <<>> THEN Extend(e2, "email", email) ELSE e2

ShortEmail == <<"a", "b">>

GoodEmail == <<"customer", "1", "@example.com">>

\* Events that meet every constraint, that violate one, that violate several.
DirtyEvents ==
    {DirtyEvent(TRUE, "INSERT", GoodEmail),
     DirtyEvent(TRUE, "INSERT", ShortEmail),
     DirtyEvent(TRUE, "INSERT", <<>>),
     DirtyEvent(TRUE, "DELETE", <<>>),
     DirtyEvent(TRUE, "", GoodEmail),
     DirtyEvent(FALSE, "INSERT", GoodEmail),
     DirtyEvent(FALSE, "", <<>>)}

\* The source system lands the next file NN.json, holding one event.
DirtyFile(event) ==
    LET n == Cardinality(CustomersPaths(files))
    IN  /\ n < MaxDirtyEvents
        /\ files' = FsPut(files,
                          GenWorkingDir \o <<"customers", ZeroPad(n, 2) \o JsonSuffix>>,
                          <<event>>)
        /\ UNCHANGED <<provVars, lastCall, resolverVars, pipeVars>>

CleanNext ==
    \/ \E event \in DirtyEvents : DirtyFile(event)
    \/ IngestRaw
    \/ \E n \in 1..(Len(customers_raw) - cleanOffset) : CleanUpdate(n)

InitClean == ResolverIdle /\ GenInit /\ PipeInit /\ ProvIdle

SpecClean == InitClean /\ [][CleanNext]_vars

(***************************************************************************)
(* The workspace provisioner: Steps 1 to 9 of the setup notebook, run by   *)
(* two notebook sessions against one platform. Every statement that calls  *)
(* the platform is one atomic step; an exception that no except clause     *)
(* catches ends the run.                                                   *)
(***************************************************************************)

\* The identities of the sessions: two runs may be of one identity or of two.
ProvUsers == {<<"a", ".", "b">>, <<"a", "_", "b">>, <<"Z", "@", "7">>}

\* The seeds of the sessions' random sources: the two ends of Seeds.
ProvSeeds == {0, MaxSeed}

\* The statements of the notebook that change state, in program order.
StepOrder ==
    <<"resolve", "drop", "create_catalog", "create_default", "create_bronze",
      "create_silver", "create_gold", "create_volume", "mkdirs_orders",
      "mkdirs_status", "mkdirs_customers", "generate_orders",
      "generate_status_updates", "generate_customer_cdc", "summary", "done">>

After(step) ==
    StepOrder[(CHOOSE i \in 1..(Len(StepOrder) - 1) : StepOrder[i] = step) + 1]

SchemaStep ==
    [default |-> "create_default", bronze |-> "create_bronze",
     silver |-> "create_silver", gold |-> "create_gold"]

MkdirsStep ==
    [orders |-> "mkdirs_orders", status |-> "mkdirs_status",
     customers |-> "mkdirs_customers"]

InFlight(r) == pc[r] \notin {"resolve", "done", "failed"}

\* A run that has created objects in its catalog and still relies on them.
ReliesOnCatalog(r) == InFlight(r) /\ pc[r] \notin {"drop", "create_catalog"}

\* An exception that is swallowed: the run moves on to the next statement.
ContinueOnError(r, step, raised) ==
    /\ pc' = [pc EXCEPT ![r] = After(step)]
    /\ failedAt' = [failedAt EXCEPT ![r] = IF raised THEN step ELSE @]

\* The statement of run r has returned or raised: the run moves on, or ends.
Continue(r, step, raised) ==
    /\ pc' = [pc EXCEPT ![r] = IF raised THEN "failed" ELSE After(step)]
    /\ failedAt' = [failedAt EXCEPT ![r] = IF raised THEN step ELSE @]

\* What the three generators write for a session, evaluated once.
SeedData ==
    [user \in ProvUsers, seed \in ProvSeeds |->
        LET working_dir == WorkshopHelper(user).working_dir
        IN  [generate_orders |->
                 GenerateOrders(EmptyFs, working_dir, 174, SeedFileName),
             generate_status_updates |->
                 GenerateStatusUpdates(EmptyFs, working_dir, 536, SeedFileName,
                                       seed),
             generate_customer_cdc |->
                 GenerateCustomerCdc(EmptyFs, working_dir, SeedFileName, seed)]]

\* The seed files of a helper, by generator.
SeedPath(da, dir) == da.working_dir \o <<dir, SeedFileName>>

\* Everything Steps 3 to 8 create for a helper is there.
EnvComplete(da) ==
    /\ da.catalog_name \in catalogs
    /\ HelperSchemas(da) \subseteq schemas
    /\ HelperVolume(da) \in volumes
    /\ HelperDirs(da) \subseteq dirs
    /\ \A d \in SubDirs : SeedPath(da, d) \in DOMAIN files

\* Step 1: current_user(), the helper; the session's random source is seeded.
Resolve(r) ==
    /\ pc[r] = "resolve"
    /\ \E user \in ProvUsers, seed \in ProvSeeds :
           /\ DA' = [DA EXCEPT ![r] = WorkshopHelper(user)]
           /\ session' = [session EXCEPT
                              ![r] = [started |-> TRUE, user |-> user,
                                      seed |-> seed]]
    /\ alone' = [q \in Runs |->
                    IF q = r THEN \A o \in Runs \ {r} : ~InFlight(o)
                    ELSE alone[q] /\ ~InFlight(q)]
    /\ Continue(r, "resolve", FALSE)
    /\ UNCHANGED <<platformVars, teardown, clobbered, complete, snapshot, resolverVars,
                   genVars, pipeVars>>

\* Step 2 without its try/except: the exception of the DROP ends the run.
Step2NoExcept(raised) ==
    [printed |-> IF raised THEN "none" ELSE "cleaned", raised |-> raised]

\* Step 2, the try/except around the DROP: what is printed, and whether an
\* exception leaves the cell.
Step2(raised) ==
    [printed |-> IF raised THEN "note" ELSE "cleaned", raised |-> FALSE]

\* Step 2: DROP CATALOG IF EXISTS ... CASCADE. The statement either drops the
\* catalog with everything in it, or raises and leaves the platform as it is.
DropCatalog(r) ==
    LET catalog == DA[r].catalog_name
    IN  /\ pc[r] = "drop"
        /\ \E raised \in BOOLEAN :
               /\ IF raised
                  THEN UNCHANGED <<platformVars, files, clobbered>>
                  ELSE /\ catalogs' = catalogs \ {catalog}
                       /\ schemas' = DropCatalogCascade(catalog, schemas)
                       /\ volumes' = DropCatalogCascade(catalog, volumes)
                       /\ tables' = DropCatalogCascade(catalog, tables)
                       /\ dirs' = dirs \ UnderCatalog(catalog, dirs)
                       /\ files' = Restrict(files, (DOMAIN files)
                                       \ UnderCatalog(catalog, DOMAIN files))
                       /\ clobbered' =
                              [q \in Runs |->
                                  \/ clobbered[q]
                                  \/ /\ q # r
                                     /\ ReliesOnCatalog(q)
                                     /\ DA[q].catalog_name = catalog]
               /\ teardown' = [teardown EXCEPT ![r] = Step2(raised).printed]
               /\ Continue(r, "drop", Step2(raised).raised)
        /\ UNCHANGED <<DA, session, alone, complete, snapshot, resolverVars, lastCall,
                       pipeVars>>

\* Step 3: CREATE CATALOG IF NOT EXISTS
CreateCatalog(r) ==
    LET sql == CreateCatalogIfNotExists(DA[r].catalog_name)
    IN  /\ pc[r] = "create_catalog"
        /\ catalogs' = sql.catalogs
        /\ Continue(r, "create_catalog", sql.raised)
        /\ UNCHANGED <<schemas, volumes, tables, dirs, DA, session, teardown,
                       alone, clobbered, complete, snapshot, resolverVars, genVars,
                       pipeVars>>

\* Step 3: CREATE SCHEMA IF NOT EXISTS, for default and then for the three
\* schemas of schemas_to_create.
CreateSchema(r, schema) ==
    LET sql == CreateSchemaIfNotExists(DA[r].catalog_name, schema)
    IN  /\ pc[r] = SchemaStep[schema]
        /\ schemas' = sql.schemas
        /\ Continue(r, SchemaStep[schema], sql.raised)
        /\ UNCHANGED <<catalogs, volumes, tables, dirs, DA, session, teardown,
                       alone, clobbered, complete, snapshot, resolverVars, genVars,
                       pipeVars>>

\* Step 4: CREATE VOLUME IF NOT EXISTS <catalog>.default.raw
CreateVolume(r) ==
    LET sql == CreateVolumeIfNotExists(DA[r].catalog_name,
                                       DA[r].default_schema, VolumeName)
    IN  /\ pc[r] = "create_volume"
        /\ volumes' = sql.volumes
        /\ Continue(r, "create_volume", sql.raised)
        /\ UNCHANGED <<catalogs, schemas, tables, dirs, DA, session, teardown,
                       alone, clobbered, complete, snapshot, resolverVars, genVars,
                       pipeVars>>

\* Step 5: dbutils.fs.mkdirs of orders, status and customers.
Mkdirs(r, dir) ==
    LET fs == FsMkdirs(DA[r].working_dir \o <<dir>>)
    IN  /\ pc[r] = MkdirsStep[dir]
        /\ dirs' = fs.dirs
        /\ Continue(r, MkdirsStep[dir], fs.raised)
        /\ UNCHANGED <<catalogs, schemas, volumes, tables, DA, session,
                       teardown, alone, clobbered, complete, snapshot, resolverVars,
                       genVars, pipeVars>>

\* Steps 6 to 8: a generator builds its records and puts its file; the put
\* needs the volume and creates the directory of the file if it is missing.
Generate(r, generator) ==
    LET written == SeedData[session[r].user, session[r].seed][generator].fs
        raised  == HelperVolume(DA[r]) \notin volumes
    IN  /\ pc[r] = generator
        /\ IF raised
           THEN UNCHANGED <<files, dirs>>
           ELSE /\ files' = FsPutAll(files, written)
                /\ dirs' = dirs \cup {Parent(p) : p \in DOMAIN written}
        /\ Continue(r, generator, raised)
        /\ UNCHANGED <<catalogs, schemas, volumes, tables, DA, session,
                       teardown, alone, clobbered, complete, snapshot, resolverVars,
                       lastCall, pipeVars>>

\* Step 9: the summary is printed; the run has finished.
Summary(r) ==
    /\ pc[r] = "summary"
    /\ complete' = [complete EXCEPT ![r] = EnvComplete(DA[r])]
    /\ snapshot' = [snapshot EXCEPT ![r] = EnvOf(DA[r].catalog_name)]
    /\ Continue(r, "summary", FALSE)
    /\ UNCHANGED <<platformVars, DA, session, teardown, alone, clobbered,
                   resolverVars, genVars, pipeVars>>

Next ==
    \E r \in Runs :
        \/ Resolve(r)
        \/ DropCatalog(r)
        \/ CreateCatalog(r)
        \/ \E schema \in DOMAIN SchemaStep : CreateSchema(r, schema)
        \/ CreateVolume(r)
        \/ \E dir \in SubDirs : Mkdirs(r, dir)
        \/ \E generator \in {"generate_orders", "generate_status_updates",
                             "generate_customer_cdc"} : Generate(r, generator)
        \/ Summary(r)

\* What an earlier session of a user left behind: its environment, a table of
\* the lesson pipeline and a file of add_orders_file.
Leftover(user) ==
    LET da == WorkshopHelper(user)
    IN  [catalogs |-> {da.catalog_name},
         schemas  |-> HelperSchemas(da),
         volumes  |-> {HelperVolume(da)},
         tables   |-> {<<da.catalog_name, "bronze", "customers_raw">>},
         dirs     |-> HelperDirs(da),
         files    |-> FsPutAll(
                          FsPutAll(SeedData[user, 0].generate_orders.fs,
                              FsPutAll(SeedData[user, 0].generate_status_updates.fs,
                                       SeedData[user, 0].generate_customer_cdc.fs)),
                          AddOrdersFile(EmptyFs, da.working_dir, 1, 1).fs)]

NoPlatform ==
    [catalogs |-> {}, schemas |-> {}, volumes |-> {}, tables |-> {},
     dirs |-> {}, files |-> EmptyFs]

\* The platform is empty or holds what an earlier session left behind.
Init ==
    /\ ResolverIdle
    /\ PipeInit
    /\ lastCall = NoCall
    /\ \E before \in {NoPlatform} \cup {Leftover(user) : user \in ProvUsers} :
           /\ catalogs = before.catalogs
           /\ schemas = before.schemas
           /\ volumes = before.volumes
           /\ tables = before.tables
           /\ dirs = before.dirs
           /\ files = before.files
    /\ RunsIdle

Spec == Init /\ [][Next]_vars

(***************************************************************************)
(* The provisioner on a platform whose calls may fail. The runs follow one *)
(* another, as the re-runs of a learner do.                                *)
(***************************************************************************)

\* The statements of Steps 3 to 8 that call the platform outside a try.
UncaughtSteps ==
    {"create_catalog", "create_default", "create_bronze", "create_silver",
     "create_gold", "create_volume", "mkdirs_orders", "mkdirs_status",
     "mkdirs_customers", "generate_orders", "generate_status_updates",
     "generate_customer_cdc"}

\* The platform call of the statement run r is at raises; nothing is created.
PlatformFault(r) ==
    /\ pc[r] \in UncaughtSteps
    /\ Continue(r, pc[r], TRUE)
    /\ UNCHANGED <<platformVars, DA, session, teardown, alone, clobbered,
                   complete, snapshot, resolverVars, genVars, pipeVars>>

\* run2 is the re-run: it starts when run1 has ended.
RerunAfterFirst == pc["run2"] # "resolve" => pc["run1"] \in {"done", "failed"}

NextFaults ==
    \/ Next /\ RerunAfterFirst'
    \/ \E r \in Runs : PlatformFault(r)

SpecFaults == Init /\ [][NextFaults]_vars

(***************************************************************************)
(* C1, C5                                                                  *)
(***************************************************************************)

SeedCustomersPath == GenWorkingDir \o <<"customers", SeedFileName>>

WithOperation(records, op) ==
    {k \in 1..Len(records) : records[k].operation = op}

\* The number i of a customer id CUSTnnnn.
CustomerNumber(customer_id) == DecimalValue(SubSeq(customer_id, 5, Len(customer_id)))

\* C5: generate_customer_cdc returns 27 and writes 20 INSERT, 5 UPDATE and
\* 2 DELETE records; the INSERT timestamps are base + i*1000 for i in 1..20,
\* the UPDATE ones base + 30000 + i*100 for i in {1,5,10,15,20}, the DELETE
\* ones base + 60000 + i*100 for i in {3,7}, and every INSERT timestamp is
\* less than every UPDATE timestamp, which is less than every DELETE one.
C5_CustomerCdcShape ==
    lastCall.fn = "generate_customer_cdc" =>
        LET records == files[SeedCustomersPath]
            ins     == WithOperation(records, "INSERT")
            upd     == WithOperation(records, "UPDATE")
            del     == WithOperation(records, "DELETE")
        IN  /\ lastCall.ret = 27
            /\ Len(records) = 27
            /\ Cardinality(ins) = 20
            /\ Cardinality(upd) = 5
            /\ Cardinality(del) = 2
            /\ \A k \in ins :
                   /\ CustomerNumber(records[k].customer_id) \in 1..20
                   /\ records[k].timestamp = BaseTimestamp
                          + CustomerNumber(records[k].customer_id) * 1000
            /\ {CustomerNumber(records[k].customer_id) : k \in ins} = 1..20
            /\ \A k \in upd :
                   records[k].timestamp = BaseTimestamp + 30000
                       + CustomerNumber(records[k].customer_id) * 100
            /\ {CustomerNumber(records[k].customer_id) : k \in upd}
                   = {1, 5, 10, 15, 20}
            /\ \A k \in del :
                   records[k].timestamp = BaseTimestamp + 60000
                       + CustomerNumber(records[k].customer_id) * 100
            /\ {CustomerNumber(records[k].customer_id) : k \in del} = {3, 7}
            /\ \A i \in ins : \A u \in upd : \A d \in del :
                   /\ records[i].timestamp < records[u].timestamp
                   /\ records[u].timestamp < records[d].timestamp

\* generate_customer_cdc has written the seed file.
C5_Witness ==
    /\ lastCall.fn = "generate_customer_cdc"
    /\ SeedCustomersPath \in DOMAIN files
    /\ Len(files[SeedCustomersPath]) > 0

BusinessColumns == {"name", "email", "address", "city", "state", "zip_code"}

\* The target row carries the values of the event.
CarriesValuesOf(row, event) ==
    \A c \in BusinessColumns : c \in DOMAIN row /\ row[c] = event[c]

\* The flow has applied every event of the seed file.
SeedApplied ==
    /\ ingested = {SeedCustomersPath}
    /\ Len(customers_raw) = 27
    /\ cleanOffset = 27
    /\ cdcOffset = 27

RowsOf(customer_id) == {r \in SilverCustomers : r.customer_id = customer_id}

\* C1: once the 27 seed events are applied, silver.customers holds exactly
\* 18 rows: CUST0003 and CUST0007 are absent, the rows of customers 1, 5, 10,
\* 15 and 20, and only they, carry the UPDATE event's values (city San
\* Francisco, new email and address), and the other 13 rows carry their
\* INSERT event's values.
C1_SeedConvergesTo18 ==
    SeedApplied =>
        LET records == files[SeedCustomersPath]
            EventOf(i, op) ==
                records[CHOOSE k \in WithOperation(records, op) :
                            CustomerNumber(records[k].customer_id) = i]
        IN  /\ Cardinality(SilverCustomers) = 18
            /\ RowsOf(CustomerId(3)) = {}
            /\ RowsOf(CustomerId(7)) = {}
            /\ {CustomerNumber(r.customer_id) :
                    r \in {x \in SilverCustomers : x.city = "San Francisco"}}
                   = {1, 5, 10, 15, 20}
            /\ \A i \in {1, 5, 10, 15, 20} :
                   /\ Cardinality(RowsOf(CustomerId(i))) = 1
                   /\ \A r \in RowsOf(CustomerId(i)) :
                          /\ CarriesValuesOf(r, EventOf(i, "UPDATE"))
                          /\ r.email = <<"newemail">> \o Decimal(i)
                                           \o <<"@example.com">>
                          /\ r.address = Decimal(i * 200) \o <<" Oak Ave">>
            /\ \A i \in (1..20) \ {1, 3, 5, 7, 10, 15, 20} :
                   /\ Cardinality(RowsOf(CustomerId(i))) = 1
                   /\ \A r \in RowsOf(CustomerId(i)) :
                          CarriesValuesOf(r, EventOf(i, "INSERT"))

\* Every seed event is applied; the flow has seen 20 keys.
C1_Witness ==
    /\ SeedApplied
    /\ Len(customers_clean) = 27
    /\ Cardinality(DOMAIN silver) = 20

(***************************************************************************)
(* C2, C8                                                                  *)
(***************************************************************************)

\* The rows the flow has read so far, in arrival order.
Applied == SubSeq(customers_clean, 1, cdcOffset)

AppliedRows == {Applied[k] : k \in 1..Len(Applied)}

\* One event applied to a table (key -> row) that is up to date with every
\* earlier event: a DELETE removes the key's row, an INSERT or UPDATE puts
\* the event's values in its place.
ApplyInOrder(table, row) ==
    IF row.operation = "DELETE"
    THEN [k \in (DOMAIN table) \ {row.customer_id} |-> table[k]]
    ELSE [k \in (DOMAIN table) \cup {row.customer_id} |->
             IF k = row.customer_id THEN TargetColumns(row) ELSE table[k]]

\* The table after the events of rows, applied from the earliest event time
\* to the latest.
RECURSIVE ReplayInOrder(_, _)
ReplayInOrder(rows, table) ==
    IF rows = {} THEN table
    ELSE LET first == CHOOSE r \in rows : \A q \in rows :
                          r.timestamp <= q.timestamp
         IN  ReplayInOrder(rows \ {first}, ApplyInOrder(table, first))

\* C2: whatever the order and the batches the events arrived in, the target
\* is what applying the events read so far in SEQUENCE BY order gives; an
\* INSERT arriving after a later UPDATE does not overwrite it, a DELETE
\* arriving before an earlier UPDATE leaves the key absent.
C2_ArrivalOrderIrrelevant ==
    LET table == ReplayInOrder(AppliedRows, EmptyTarget)
    IN  SilverCustomers = {table[k] : k \in DOMAIN table}

\* The lesson's scenario: DELETE (latest), then the UPDATE, then the INSERT
\* (earliest) of customer 1 arrive in that order, each in a batch of its
\* own, and the customer is absent.
C2_Witness ==
    /\ Len(Applied) = 3
    /\ \A k \in 1..3 : Applied[k].customer_id = CustomerId(1)
    /\ Applied[1].operation = "DELETE"
    /\ Applied[2].operation = "UPDATE"
    /\ Applied[3].operation = "INSERT"
    /\ Applied[3].timestamp < Applied[2].timestamp
    /\ Applied[2].timestamp < Applied[1].timestamp
    /\ SilverCustomers = {}

KeysWith(ops) == {r.customer_id : r \in {x \in AppliedRows : x.operation \in ops}}

\* The keys with an INSERT and a DELETE sequenced after it.
KeysInsertedThenDeleted ==
    {key \in KeysWith({"INSERT"}) :
        \E i \in AppliedRows : \E d \in AppliedRows :
            /\ i.customer_id = key /\ i.operation = "INSERT"
            /\ d.customer_id = key /\ d.operation = "DELETE"
            /\ i.timestamp < d.timestamp}

\* The keys whose latest event is a DELETE.
KeysDeletedLast ==
    {key \in KeysWith({"DELETE"}) :
        \A r \in AppliedRows :
            (r.customer_id = key /\ r.operation # "DELETE") =>
                \E d \in AppliedRows :
                    /\ d.customer_id = key /\ d.operation = "DELETE"
                    /\ r.timestamp < d.timestamp}

AtMostOneRowPerKey ==
    \A r \in SilverCustomers : \A q \in SilverCustomers :
        r.customer_id = q.customer_id => r = q

OrderIds(records) == {records[k].order_id : k \in 1..Len(records)}

\* s has a run of decimal digits whose value is n.
ContainsNumber(s, n) ==
    \E i \in 1..Len(s) : \E j \in i..Len(s) :
        /\ IsDigits(SubSeq(s, i, j))
        /\ DecimalValue(SubSeq(s, i, j)) = n

ContainsSeq(s, sub) ==
    \E i \in 1..(Len(s) - Len(sub) + 1) : SubSeq(s, i, i + Len(sub) - 1) = sub

\* digits is n written in decimal with zeros in front up to a width of w.
IsZeroPadded(digits, n, w) ==
    /\ IsDigits(digits)
    /\ DecimalValue(digits) = n
    /\ Len(digits) >= w
    /\ (Len(digits) > w => digits[1] # "0")

\* What add_orders_file(file_number, num_orders) left at path p and returned,
\* with the widths of the file number and of the id number judged by
\* NameOk and IdOk.
AddedFileAt(p, NameOk(_, _), IdOk(_, _)) ==
    LET name == p[Len(p)]
    IN  /\ p = GenWorkingDir \o <<"orders", name>>
        /\ name[Len(name)] = ".json"
        /\ NameOk(NameDigits(name), lastCall.file_number)
        /\ Len(files[p]) = lastCall.num_orders
        /\ \A k \in 1..Len(files[p]) :
               LET id == files[p][k].order_id
               IN  /\ SubSeq(id, 1, 3) = <<"O", "R", "D">>
                   /\ IdOk(SubSeq(id, 4, Len(id)),
                           1000 + lastCall.file_number * 1000 + (k - 1))
        /\ ContainsNumber(lastCall.ret, lastCall.num_orders)
        /\ ContainsSeq(lastCall.ret, <<" orders in orders/">> \o name)

ExactlyTwoDigits(digits, n) == IsZeroPadded(digits, n, 2) /\ Len(digits) = 2

ExactlyFiveDigits(digits, n) == IsZeroPadded(digits, n, 5) /\ Len(digits) = 5

AtLeastTwoDigits(digits, n) == IsZeroPadded(digits, n, 2)

AtLeastFiveDigits(digits, n) == IsZeroPadded(digits, n, 5)

\* C6 as stated: the order ids of any two files of orders/ are disjoint,
\* whatever the record counts.
C6_IdsDisjointAnyCount ==
    \A p \in OrdersPaths(files) : \A q \in OrdersPaths(files) \ {p} :
        OrderIds(files[p]) \cap OrderIds(files[q]) = {}

\* C6, amended: the order ids of any two files of orders/ (the seed file
\* 00.json of generate_orders included) that hold at most 1000 records each
\* are disjoint.
C6_IdsDisjointUpTo1000 ==
    \A p \in OrdersPaths(files) : \A q \in OrdersPaths(files) \ {p} :
        (Len(files[p]) <= 1000 /\ Len(files[q]) <= 1000) =>
            OrderIds(files[p]) \cap OrderIds(files[q]) = {}

\* Two files of consecutive file numbers, the lower one with 1000 records.
C6_Witness ==
    /\ lastCall.fn = "add_orders_file"
    /\ \E p \in OrdersPaths(files) : \E q \in OrdersPaths(files) :
           /\ DecimalValue(NameDigits(p[Len(p)])) = 0
           /\ DecimalValue(NameDigits(q[Len(q)])) = 1
           /\ Len(files[p]) = 1000
           /\ Len(files[q]) > 0

IsPrefixOf(p, s) == Len(p) <= Len(s) /\ SubSeq(s, 1, Len(p)) = p

Chars(s) == {s[i] : i \in 1..Len(s)}

\* username is the part of user before the first '@', all of it without one.
IsPartBeforeFirstAt(username, user) ==
    /\ "@" \notin Chars(username)
    /\ \/ user = username
       \/ IsPrefixOf(username \o <<"@">>, user)

\* What clean_username holds at a position whose character is c (the
\* characters whose lower-case form is one code point long).
CleanOf(c) ==
    IF c \in AZ09 THEN c ELSE IF c = "Z" THEN "z" ELSE "_"

NsWellFormed(ns, user) ==
    ns.resolved =>
        /\ IsPartBeforeFirstAt(ns.username, user)
        /\ Chars(ns.clean_username) \subseteq (AZ09 \cup {"_"})
        /\ (ns.username # <<>> => ns.clean_username # <<>>)
        /\ ("U+0130" \notin Chars(ns.username) =>
                /\ Len(ns.clean_username) = Len(ns.username)
                /\ \A i \in 1..Len(ns.username) :
                       ns.clean_username[i] = CleanOf(ns.username[i]))
        /\ ns.catalog_name = CatalogPrefix \o ns.clean_username

\* C9: namespace resolution is a function of the identity alone: username is
\* the part before the first '@', clean_username is username lower-cased with
\* every character outside [a-z0-9] replaced by '_' (so it holds only
\* [a-z0-9_] and is non-empty when username is), and the setup notebook and
\* the lesson cell arrive at the same catalog name sdp_workshop_<clean>.
C9_NamespaceResolution ==
    /\ NsWellFormed(setupNs, current_user)
    /\ NsWellFormed(lessonNs, current_user)
    /\ (setupNs.resolved /\ lessonNs.resolved =>
            /\ setupNs.catalog_name = lessonNs.catalog_name
            /\ setupNs.username = lessonNs.username
            /\ setupNs.clean_username = lessonNs.clean_username)

\* Both cells have run for an identity with an upper-case letter and a
\* punctuation character before the '@'.
C9_Witness ==
    /\ current_user = <<"Z", ".", "@">>
    /\ setupNs.resolved
    /\ lessonNs.resolved
    /\ setupNs.clean_username = <<"z", "_">>

(***************************************************************************)
(* C3, C4, C10                                                             *)
(***************************************************************************)

\* What Steps 3 to 5 leave in the catalog of a helper, and nothing else.
ExpectedEnv(da) ==
    [catalogs |-> {da.catalog_name},
     schemas  |-> HelperSchemas(da),
     volumes  |-> {HelperVolume(da)},
     dirs     |-> HelperDirs(da)]

\* Two runs of one identity, one after the other.
InSuccession(r1, r2) ==
    /\ r1 # r2
    /\ session[r1].started /\ session[r2].started
    /\ session[r1].user = session[r2].user
    /\ alone[r1] /\ alone[r2]

\* C3: of two runs of the setup notebook in succession for one identity,
\* neither fails; when both have finished, the catalog of the identity holds
\* exactly the catalog, the schemas default, bronze, silver and gold, the
\* volume raw and the directories orders, status and customers, and it held
\* exactly the same at the end of either run.
C3_RerunIdempotent ==
    \A r1, r2 \in Runs :
        InSuccession(r1, r2) =>
            /\ pc[r1] # "failed" /\ pc[r2] # "failed"
            /\ (pc[r1] = "done" /\ pc[r2] = "done") =>
                   /\ snapshot[r1] = ExpectedEnv(DA[r1])
                   /\ snapshot[r2] = snapshot[r1]
                   /\ EnvOf(DA[r2].catalog_name) = snapshot[r2]
                   /\ Cardinality(snapshot[r2].catalogs) = 1
                   /\ Cardinality(snapshot[r2].schemas) = 4
                   /\ Cardinality(snapshot[r2].volumes) = 1
                   /\ Cardinality(snapshot[r2].dirs) = 3

\* Two runs of one identity have finished one after the other, the teardown
\* of one of them having raised.
C3_Witness ==
    \E r1, r2 \in Runs :
        /\ InSuccession(r1, r2)
        /\ pc[r1] = "done" /\ pc[r2] = "done"
        /\ teardown[r1] = "cleaned" /\ teardown[r2] = "note"

\* A run has ended by an exception, or has printed its summary over an
\* incomplete environment.
Broken(r) == pc[r] = "failed" \/ (pc[r] = "done" /\ ~complete[r])

\* C4: a run fails, or finishes over an incomplete environment, only when the
\* DROP CATALOG ... CASCADE of another run for the same catalog was executed
\* after the run had begun to create its objects; the witness is such a run.
C4_BrokenOnlyByConcurrentDrop ==
    \A r \in Runs : Broken(r) => clobbered[r]

\* The DROP of another run removed the catalog under a run, whose next
\* CREATE or put then raised.
C4_Witness ==
    \E r \in Runs :
        /\ clobbered[r]
        /\ pc[r] = "failed"
        /\ \E q \in Runs \ {r} : DA[q].resolved /\ DA[q].catalog_name = DA[r].catalog_name

\* The other outcome of the race: a run printed its summary although the DROP
\* of another run had removed objects it created.
C4_SilentlyIncomplete ==
    \E r \in Runs : clobbered[r] /\ pc[r] = "done" /\ ~complete[r]

\* C10: no run ends at the DROP of Step 2; a run past Step 2 has printed
\* either the clean-up line or the note; and a run whose DROP raised and which
\* no other run disturbed finishes over the complete environment.
C10_TeardownNeverFatal ==
    \A r \in Runs :
        /\ failedAt[r] # "drop"
        /\ pc[r] \notin {"resolve", "drop"} => teardown[r] \in {"cleaned", "note"}
        /\ (teardown[r] = "note" /\ ~clobbered[r]) =>
               /\ pc[r] # "failed"
               /\ pc[r] = "done" =>
                      /\ complete[r]
                      /\ snapshot[r] = ExpectedEnv(DA[r])

\* The DROP of a first run on an empty platform raised, and the run went on
\* to create and seed everything.
C10_Witness ==
    \E r \in Runs :
        /\ teardown[r] = "note"
        /\ pc[r] = "done"
        /\ complete[r]
        /\ \A q \in Runs \ {r} : pc[q] = "resolve"
        /\ tables = {}

(***************************************************************************)
(* C11                                                                     *)
(***************************************************************************)

\* The files of a catalog on the volumes.
FilesOf(catalog) == Restrict(files, UnderCatalog(catalog, DOMAIN files))

\* What a run of a session leaves on an empty platform: the objects of
\* Steps 3 to 5, no table, and the three seed files.
FreshFiles(s) ==
    FsPutAll(SeedData[s.user, s.seed].generate_orders.fs,
        FsPutAll(SeedData[s.user, s.seed].generate_status_updates.fs,
                 SeedData[s.user, s.seed].generate_customer_cdc.fs))

LeavesFreshEnv(r) ==
    /\ complete[r]
    /\ EnvOf(DA[r].catalog_name) = ExpectedEnv(DA[r])
    /\ InCatalog(DA[r].catalog_name, tables) = {}
    /\ FilesOf(DA[r].catalog_name) = FreshFiles(session[r])

\* A run ended by an exception takes no further step.
FailedRunsStay ==
    \A r \in Runs :
        pc[r] = "failed" => pc'[r] = "failed" /\ failedAt'[r] = failedAt[r]

\* A run is ended exactly by the statement that raised.
RaisedMeansEnded ==
    \A r \in Runs :
        /\ (failedAt[r] # "none") <=> (pc[r] = "failed")
        /\ pc[r] = "failed" => ~complete[r]

\* A re-run of the same identity after a failed run, in which no call raised,
\* leaves what a run on an empty platform leaves.
RerunRecovers ==
    ( /\ InSuccession("run1", "run2")
      /\ pc["run1"] = "failed"
      /\ pc["run2"] = "done"
      /\ teardown["run2"] = "cleaned" ) => LeavesFreshEnv("run2")

\* C11: a platform call of Steps 3 to 8 that raises ends the run at that
\* statement (no retry, no later statement of the run is executed); a re-run
\* of the whole notebook for the same identity in which no call raises ends
\* in the environment a run from an empty platform ends in.
C11_FailurePropagatesRerunRecovers ==
    /\ [](RaisedMeansEnded /\ RerunRecovers)
    /\ [][FailedRunsStay]_vars

\* A run was ended by CREATE VOLUME, leaving a catalog with schemas and no
\* volume; the re-run of the identity has finished.
C11_Witness ==
    /\ InSuccession("run1", "run2")
    /\ pc["run1"] = "failed" /\ failedAt["run1"] = "create_volume"
    /\ teardown["run1"] = "cleaned"
    /\ pc["run2"] = "done" /\ teardown["run2"] = "cleaned"
    /\ LeavesFreshEnv("run2")

(***************************************************************************)
(* C12                                                                     *)
(***************************************************************************)

\* bronze.customers_clean has read the whole seed file.
SeedCleaned ==
    /\ SeedCustomersPath \in ingested
    /\ cleanOffset = Len(customers_raw)

\* C12: once the pipeline has processed the seed customer file,
\* bronze.customers_raw and bronze.customers_clean hold 27 rows each and the
\* metrics of bronze.customers_clean show valid_id met by 27 records,
\* valid_operation met by 27 records and valid_email met by 25 records.
C12_SeedMetrics ==
    SeedCleaned =>
        /\ Len(customers_raw) = 27
        /\ Len(customers_clean) = 27
        /\ expectations.valid_id.met = 27
        /\ expectations.valid_operation.met = 27
        /\ expectations.valid_email.met = 25

\* What the constraints as declared give on the seed file: the two DELETE
\* records meet valid_email through operation = 'DELETE'.
C12_SeedMetricsAsDeclared ==
    SeedCleaned =>
        /\ Len(customers_raw) = 27
        /\ Len(customers_clean) = 27
        /\ expectations.valid_id = [met |-> 27, violated |-> 0]
        /\ expectations.valid_operation = [met |-> 27, violated |-> 0]
        /\ expectations.valid_email = [met |-> 27, violated |-> 0]
        /\ expectations.dropped = 0

\* The seed file has gone through bronze.customers_clean in more than one
\* update.
C12_Witness ==
    /\ SeedCleaned
    /\ Len(customers_clean) = 27
    /\ expectations.last_update = "completed"
    /\ cdcOffset = 0

(***************************************************************************)
(* C13                                                                     *)
(***************************************************************************)

\* A raw row as bronze.customers_clean stores it.
AsCleanRow(row) ==
    Extend(row, "timestamp_datetime", FromUnixtime(row.timestamp))

HasOperation(row) == "operation" \in DOMAIN row

\* The email is missing or too short, and the operation is not DELETE.
BadEmail(row) ==
    /\ ("email" \notin DOMAIN row) \/ CharLen(row.email) < 3
    /\ ~(HasOperation(row) /\ row.operation = "DELETE")

NumberOf(batch, S) == Cardinality({k \in 1..Len(batch) : batch[k] \in S})

\* An update of bronze.customers_clean that completed on the batch of raw
\* rows from cleanOffset + 1 to cleanOffset': no row of the batch has a null
\* customer_id; the rows with an operation are appended, in order, those with
\* a bad email among them; the others are dropped and counted.
CompletedUpdate ==
    cleanOffset' > cleanOffset =>
        LET batch == SubSeq(customers_raw, cleanOffset + 1, cleanOffset')
            rows  == {batch[k] : k \in 1..Len(batch)}
            kept  == SelectSeq(batch, HasOperation)
        IN  /\ \A row \in rows : "customer_id" \in DOMAIN row
            /\ customers_clean' =
                   customers_clean \o [k \in 1..Len(kept) |-> AsCleanRow(kept[k])]
            /\ expectations'.valid_operation.violated =
                   expectations.valid_operation.violated
                       + NumberOf(batch, {row \in rows : ~HasOperation(row)})
            /\ expectations'.dropped - expectations.dropped =
                   Len(batch) - Len(kept)
            /\ expectations'.valid_email.violated =
                   expectations.valid_email.violated
                       + NumberOf(batch, {row \in rows : BadEmail(row)})
            /\ expectations'.valid_id.violated = expectations.valid_id.violated
            /\ expectations'.last_update = "completed"

\* An update of bronze.customers_clean that failed: a row not yet read has a
\* null customer_id, and nothing is added or counted.
FailedUpdate ==
    (expectations'.last_update = "failed" /\ expectations' # expectations) =>
        /\ \E k \in (cleanOffset + 1)..Len(customers_raw) :
               "customer_id" \notin DOMAIN customers_raw[k]
        /\ customers_clean' = customers_clean
        /\ cleanOffset' = cleanOffset
        /\ expectations' = [expectations EXCEPT !.last_update = "failed"]

\* The rows of the clean table are rows of the raw table.
CleanWithinRaw ==
    /\ Len(customers_clean) <= Len(customers_raw)
    /\ \A k \in 1..Len(customers_clean) :
           \E j \in 1..Len(customers_raw) :
               customers_clean[k] = AsCleanRow(customers_raw[j])

\* C13: an update of bronze.customers_clean on a batch with a null
\* customer_id fails and adds none of its rows; any other update drops
\* exactly the rows with a null operation, counting each as a violation of
\* valid_operation, and adds all other rows, those violating valid_email
\* included and counted; the clean rows are always rows of the raw table
\* and never more than those.
C13_CleanBatchSemantics ==
    /\ []CleanWithinRaw
    /\ [][CompletedUpdate /\ FailedUpdate]_vars

\* An update dropped a row and kept a row with a bad email; a later update
\* failed on a null customer_id.
C13_Witness ==
    /\ expectations.dropped >= 1
    /\ expectations.valid_email.violated >= 1
    /\ Len(customers_clean) >= 1
    /\ expectations.last_update = "failed"

(***************************************************************************)
(* C14                                                                     *)
(***************************************************************************)

\* Run r has finished and no other run has started: the platform is as the
\* run left it.
JustCompleted(r) ==
    /\ pc[r] = "done"
    /\ \A q \in Runs \ {r} : pc[q] = "resolve"

\* The catalog of a helper has no table, and its volume holds the three seed
\* files with 174, 536 and 27 records and no other file.
CleanEnv(da) ==
    LET landed == FilesOf(da.catalog_name)
    IN  /\ InCatalog(da.catalog_name, tables) = {}
        /\ DOMAIN landed = {SeedPath(da, d) : d \in SubDirs}
        /\ Len(landed[SeedPath(da, "orders")]) = 174
        /\ Len(landed[SeedPath(da, "status")]) = 536
        /\ Len(landed[SeedPath(da, "customers")]) = 27

\* C14: when a run of the setup notebook has completed, whatever was there
\* before and whether the DROP of Step 2 succeeded or raised, the catalog has
\* no table from before the run and the landing volume holds exactly
\* orders/00.json (174 records), status/00.json (536 records) and
\* customers/00.json (27 records).
C14_CleanAfterRun ==
    \A r \in Runs : JustCompleted(r) => CleanEnv(DA[r])

\* The same for the runs whose DROP of Step 2 did not raise.
C14_CleanAfterTeardown ==
    \A r \in Runs :
        (JustCompleted(r) /\ teardown[r] = "cleaned") => CleanEnv(DA[r])

\* A run over what an earlier session left, its DROP having dropped it.
C14_Witness ==
    \E r \in Runs :
        /\ JustCompleted(r)
        /\ teardown[r] = "cleaned"
        /\ CleanEnv(DA[r])

(***************************************************************************)
(* C15                                                                     *)
(***************************************************************************)

\* The number nnnnn of an id ORDnnnnn.
OrderNumber(order_id) == DecimalValue(SubSeq(order_id, 4, Len(order_id)))

IsOrderId(order_id) ==
    /\ Len(order_id) = 8
    /\ SubSeq(order_id, 1, 3) = <<"O", "R", "D">>
    /\ IsDigits(SubSeq(order_id, 4, 8))

\* Run r has just written status/00.json, after orders/00.json, and no DROP
\* has removed them since.
WroteOrdersAndStatus(r) ==
    /\ pc[r] = "generate_customer_cdc"
    /\ SeedPath(DA[r], "orders") \in DOMAIN files
    /\ SeedPath(DA[r], "status") \in DOMAIN files

\* C15: in the seed files a run has written, orders/00.json holds 174
\* records whose ids are ORD01000 to ORD01173, each once, and every order_id
\* of the 536 records of status/00.json is the id of one of them.
C15_StatusRefersToOrders ==
    \A r \in Runs :
        WroteOrdersAndStatus(r) =>
            LET orders    == files[SeedPath(DA[r], "orders")]
                status    == files[SeedPath(DA[r], "status")]
                order_ids == {orders[k].order_id : k \in 1..Len(orders)}
            IN  /\ Len(orders) = 174
                /\ Len(status) = 536
                /\ Cardinality(order_ids) = 174
                /\ \A id \in order_ids : IsOrderId(id)
                /\ {OrderNumber(id) : id \in order_ids} = 1000..1173
                /\ \A k \in 1..Len(status) : status[k].order_id \in order_ids

\* A run has written both files; its status updates refer to the first
\* order and to others.
C15_Witness ==
    \E r \in Runs :
        /\ WroteOrdersAndStatus(r)
        /\ LET status == files[SeedPath(DA[r], "status")]
               ids    == {status[k].order_id : k \in 1..Len(status)}
           IN  /\ <<"O", "R", "D">> \o ZeroPad(1000, 5) \in ids
               /\ Cardinality(ids) > 1

(***************************************************************************)
(* C16                                                                     *)
(***************************************************************************)

\* Runs of two different identities.
OfDifferentUsers(r, q) ==
    /\ session[r].started /\ session[q].started
    /\ session[r].user # session[q].user

\* What run q left when it finished is still there.
StillProvisioned(q) == (pc[q] = "done" /\ complete[q]) => EnvComplete(DA[q])

\* C16: runs of two different identities work on different catalogs, and
\* what the run of one identity has provisioned is never destroyed by the
\* DROP CATALOG ... CASCADE of the run of the other.
C16_PerUserSandbox ==
    \A r, q \in Runs :
        OfDifferentUsers(r, q) =>
            /\ DA[r].catalog_name # DA[q].catalog_name
            /\ StillProvisioned(q)

\* The same for identities whose clean_username differs.
C16_PerCleanUsernameSandbox ==
    \A r, q \in Runs :
        (OfDifferentUsers(r, q) /\ DA[r].clean_username # DA[q].clean_username) =>
            /\ DA[r].catalog_name # DA[q].catalog_name
            /\ StillProvisioned(q)

\* The run of one identity has dropped the catalog the run of another
\* identity had provisioned.
C16_Witness ==
    \E r, q \in Runs :
        /\ OfDifferentUsers(r, q)
        /\ DA[r].catalog_name = DA[q].catalog_name
        /\ pc[q] = "done" /\ complete[q]
        /\ teardown[r] = "cleaned"
        /\ ~EnvComplete(DA[q])

====
